---- MODULE Spec2Model ----
(***************************************************************************)
(* Model of the time-bounded breadth-first planner of src/main.rs:         *)
(* Vec4, Spell/TomeSpell/Order, PlayerState::get_possible_actions,         *)
(* PlayerState::apply, PlayerState::evaluate, GameState::find_brewable_-   *)
(* order, Bot::bfs and Bot::think.                                         *)
(*                                                                         *)
(* One behaviour is one call of Bot::think on a clone of the game state    *)
(* read by main.  The wall clock is not modelled as a number: each time    *)
(* the loop of bfs tests `start_instant.elapsed() > MAX_DURATION` the      *)
(* test may come out either way (actions Cutoff and Dequeue).              *)
(***************************************************************************)
EXTENDS Integers, Sequences, FiniteSets, TLC

VARIABLES
    state,          \* main: the game state read from input (never mutated)
    turn,           \* main: the turn counter handed to think
    game_state,     \* main: turn_state, the clone that think/bfs mutate
    pc,             \* position in think/bfs
    queue,          \* bfs: VecDeque<PlayerState>
    visited,        \* bfs: HashSet<PlayerState>
    predecessor,    \* bfs: HashMap<PlayerState, PlayerState>
    pred_action,    \* bfs: HashMap<PlayerState, Action>
    initial_state,  \* bfs: Option-like, <<>> before bfs starts
    best_state,     \* bfs: Option<PlayerState>, <<>> is None
    best_score,     \* bfs: f64
    iterations,     \* bfs: number of apply calls
    current_state,  \* bfs: the node popped by the running loop iteration
    actions,        \* bfs: the part of get_possible_actions still to apply
    cur_action,     \* bfs: the loop variable of `for action in ...`
    next,           \* bfs: the last result of apply, <<>> before the first
    expanded,       \* history: the nodes popped and evaluated, in order
    discovered,     \* history: the nodes in the order they entered visited
    depth,          \* history: number of actions from the seed at discovery
    path,           \* bfs: the returned Vec<Action> (terminal to seed)
    result          \* think: the returned Action, <<>> before it returns

vars == <<state, turn, game_state, pc, queue, visited, predecessor,
          pred_action, initial_state, best_state, best_score, iterations,
          current_state, actions, cur_action, next, expanded,
          discovered, depth, path, result>>

bfsvars == <<queue, visited, predecessor, pred_action, initial_state,
             best_state, best_score, iterations, current_state, actions,
             cur_action, next, expanded, discovered, depth, path>>

----------------------------------------------------------------------------
(* Bounds of the model *)

\* the deadline is observed as exceeded at the latest when this many nodes
\* have been popped and evaluated
MaxDequeue == 10

----------------------------------------------------------------------------
(* Program constants *)

\* `if turn < 5` in get_possible_actions
LearnTurnLimit == 5
\* `spell.id + 1000` in apply
LearnedIdOffset == 1000
\* stands for f64::MIN: below every evaluation the model can produce
F64_MIN == -1000000

----------------------------------------------------------------------------
(* vec4::Vec4 *)

Vec4(x, y, z, w) == <<x, y, z, w>>

zero == Vec4(0, 0, 0, 0)

Add(a, b) == [i \in 1..4 |-> a[i] + b[i]]

Sub(a, b) == [i \in 1..4 |-> a[i] - b[i]]

is_non_neg(v) == v[1] >= 0 /\ v[2] >= 0 /\ v[3] >= 0 /\ v[4] >= 0

----------------------------------------------------------------------------
(* Action, Spell, TomeSpell, Order *)

Learn(id) == [kind |-> "Learn", id |-> id]
Brew(id)  == [kind |-> "Brew", id |-> id]
Cast(id)  == [kind |-> "Cast", id |-> id]
Rest      == [kind |-> "Rest", id |-> 0]
Wait      == [kind |-> "Wait", id |-> 0]

Spell(id, delta) ==
    [id |-> id, delta |-> delta, is_repeatable |-> ~is_non_neg(delta)]

TomeSpell(id, delta, tome_index) ==
    [id |-> id, delta |-> delta, tome_index |-> tome_index]

Order(id, price, delta) == [id |-> id, price |-> price, delta |-> delta]

can_be_fulfilled_by(order, inventory) ==
    is_non_neg(Add(inventory, order.delta))

----------------------------------------------------------------------------
(* Vec helpers *)

\* Iterator::position (and find), given the outcome of the closure on each
\* element: the 1-based index of the first TRUE; 0 stands for None
Position(hits) ==
    IF \E i \in 1..Len(hits) : hits[i]
    THEN CHOOSE i \in 1..Len(hits) :
            hits[i] /\ \A j \in 1..(i - 1) : ~hits[j]
    ELSE 0

\* the ids of a Vec of spells, tome spells or orders
Ids(s) == [i \in 1..Len(s) |-> s[i].id]

\* Vec::remove
RemoveAt(s, i) == SubSeq(s, 1, i - 1) \o SubSeq(s, i + 1, Len(s))

\* Iterator::rev
Reverse(s) == [i \in 1..Len(s) |-> s[Len(s) + 1 - i]]

Range(s) == {s[i] : i \in 1..Len(s)}

\* variant: the learned entry stays in the tome
remove_spell_kept(spells, spell) == spells

\* MagicTome::remove_spell
remove_spell(spells, spell) ==
    LET index == Position([i \in 1..Len(spells) |->
                              spells[i].id = spell.id])
    IN  IF index # 0 THEN RemoveAt(spells, index) ELSE spells

----------------------------------------------------------------------------
(* PlayerState *)

PlayerState(score, brew_count, inventory, available_spells) ==
    [score |-> score, brew_count |-> brew_count, inventory |-> inventory,
     available_spells |-> available_spells]

\* variant: the inventory counted without its tier weights
evaluate_unweighted(ps) ==
    ps.score + ps.inventory[1] + ps.inventory[2]
             + ps.inventory[3] + ps.inventory[4]

evaluate(ps) ==
    ps.score + ps.inventory[1] + ps.inventory[2] * 2
             + ps.inventory[3] * 3 + ps.inventory[4] * 4

\* variant: no affordability test
can_afford_spell_always(ps, ingredients) == TRUE

can_afford_spell(ps, ingredients) ==
    is_non_neg(Add(ingredients, ps.inventory))

\* the `for order in game_state.orders` loop of get_possible_actions
BrewActions(ps, gs) ==
    LET f == SelectSeq(gs.orders,
                       LAMBDA o : can_be_fulfilled_by(o, ps.inventory))
    IN  [i \in 1..Len(f) |-> Brew(f[i].id)]

\* the `if turn < 5` loop of get_possible_actions: the test uses the
\* position of the entry in the tome vector, not its tome_index
LearnActions(ps, gs, t) ==
    IF t < LearnTurnLimit
    THEN LET idxs == SelectSeq([i \in 1..Len(gs.tome) |-> i],
                               LAMBDA i : ps.inventory[1] >= i - 1)
         IN  [k \in 1..Len(idxs) |-> Learn(gs.tome[idxs[k]].id)]
    ELSE <<>>

\* the `for &id in self.available_spells` loop of get_possible_actions
CastActions(ps, gs) ==
    LET ok(id) ==
            LET k == Position([i \in 1..Len(gs.my_spells) |->
                                  gs.my_spells[i].id = id])
            IN  k # 0 /\ can_afford_spell(ps, gs.my_spells[k].delta)
        f == SelectSeq(ps.available_spells, ok)
    IN  [i \in 1..Len(f) |-> Cast(f[i])]

\* the unreachable!() of get_possible_actions
HitsUnreachable(ps, gs) ==
    \E i \in 1..Len(ps.available_spells) :
        Position([k \in 1..Len(gs.my_spells) |->
                     gs.my_spells[k].id = ps.available_spells[i]]) = 0

\* variant: Rest only once every spell has been cast
have_exhausted_spells_all(ps, gs) == Len(ps.available_spells) = 0

have_exhausted_spells(ps, gs) ==
    Len(ps.available_spells) # Len(gs.my_spells)

get_possible_actions(ps, gs, t) ==
    BrewActions(ps, gs) \o LearnActions(ps, gs, t) \o CastActions(ps, gs)
        \o (IF have_exhausted_spells(ps, gs) THEN <<Rest>> ELSE <<>>)

\* variant: the first order is removed, whichever was brewed
BrewRemoveFirst(order_idx) == 1

\* the index of the order that the Brew arm of apply removes
BrewRemoveIndex(order_idx) == order_idx

ApplyBrew(ps, gs, id) ==
    LET order_idx ==
            Position([i \in 1..Len(gs.orders) |->
                         /\ gs.orders[i].id = id
                         /\ can_be_fulfilled_by(gs.orders[i],
                                                ps.inventory)])
    IN  IF order_idx = 0
        THEN [ps |-> ps, gs |-> gs, panic |-> TRUE]
        ELSE LET order == gs.orders[order_idx]
             IN  [ps |-> [ps EXCEPT
                            !.inventory = Add(ps.inventory, order.delta),
                            !.score = ps.score + order.price,
                            !.brew_count = ps.brew_count + 1],
                  gs |-> [gs EXCEPT
                            !.orders = RemoveAt(gs.orders,
                                                BrewRemoveIndex(order_idx))],
                  panic |-> FALSE]

\* variant: the cast id is taken out with Vec::swap_remove, which moves the
\* last element into its place
ApplyCastSwapRemove(ps, gs, id) ==
    LET k == Position([i \in 1..Len(gs.my_spells) |->
                          gs.my_spells[i].id = id])
    IN  IF k = 0
        THEN [ps |-> ps, gs |-> gs, panic |-> FALSE]
        ELSE LET idx == Position([i \in 1..Len(ps.available_spells) |->
                                       ps.available_spells[i] = id])
                 n == Len(ps.available_spells)
             IN  IF idx = 0
                 THEN [ps |-> ps, gs |-> gs, panic |-> TRUE]
                 ELSE [ps |-> [ps EXCEPT
                                !.inventory =
                                    Add(ps.inventory, gs.my_spells[k].delta),
                                !.available_spells =
                                    [i \in 1..(n - 1) |->
                                        IF i = idx
                                        THEN ps.available_spells[n]
                                        ELSE ps.available_spells[i]]],
                       gs |-> gs, panic |-> FALSE]

ApplyCast(ps, gs, id) ==
    LET k == Position([i \in 1..Len(gs.my_spells) |->
                          gs.my_spells[i].id = id])
    IN  IF k = 0
        THEN [ps |-> ps, gs |-> gs, panic |-> FALSE]
        ELSE LET idx == Position([i \in 1..Len(ps.available_spells) |->
                                       ps.available_spells[i] = id])
             IN  IF idx = 0
                 THEN [ps |-> ps, gs |-> gs, panic |-> TRUE]
                 ELSE [ps |-> [ps EXCEPT
                                !.inventory =
                                    Add(ps.inventory, gs.my_spells[k].delta),
                                !.available_spells =
                                    RemoveAt(ps.available_spells, idx)],
                       gs |-> gs, panic |-> FALSE]

\* variant: the learning cost is deducted from the inventory
ApplyLearnPaying(ps, gs, id) ==
    LET spell_idx == Position([i \in 1..Len(gs.tome) |->
                                  gs.tome[i].id = id])
    IN  IF spell_idx = 0
        THEN [ps |-> ps, gs |-> gs, panic |-> FALSE]
        ELSE LET spell == gs.tome[spell_idx]
                 delta == Vec4(spell.tome_index, 0, 0, 0)
             IN  IF is_non_neg(Sub(ps.inventory, delta))
                 THEN [ps |-> [ps EXCEPT
                                !.inventory = Sub(ps.inventory, delta)],
                       gs |-> [gs EXCEPT
                                !.my_spells =
                                    Append(gs.my_spells,
                                           Spell(spell.id + LearnedIdOffset,
                                                 spell.delta)),
                                !.tome = remove_spell(gs.tome, spell)],
                       panic |-> FALSE]
                 ELSE [ps |-> ps, gs |-> gs, panic |-> FALSE]

ApplyLearn(ps, gs, id) ==
    LET spell_idx == Position([i \in 1..Len(gs.tome) |->
                                  gs.tome[i].id = id])
    IN  IF spell_idx = 0
        THEN [ps |-> ps, gs |-> gs, panic |-> FALSE]
        ELSE LET spell == gs.tome[spell_idx]
                 delta == Vec4(spell.tome_index, 0, 0, 0)
             IN  IF is_non_neg(Sub(ps.inventory, delta))
                 THEN [ps |-> ps,
                       gs |-> [gs EXCEPT
                                !.my_spells =
                                    Append(gs.my_spells,
                                           Spell(spell.id + LearnedIdOffset,
                                                 spell.delta)),
                                !.tome = remove_spell(gs.tome, spell)],
                       panic |-> FALSE]
                 ELSE [ps |-> ps, gs |-> gs, panic |-> FALSE]

\* variant: Rest restores the spells of the input roster only, not the
\* learned ones
ApplyRestUnlearned(ps, gs) ==
    [ps |-> [ps EXCEPT !.available_spells =
                         SelectSeq(Ids(gs.my_spells),
                                   LAMBDA i : i < LearnedIdOffset)],
     gs |-> gs, panic |-> FALSE]

ApplyRest(ps, gs) ==
    [ps |-> [ps EXCEPT !.available_spells = Ids(gs.my_spells)],
     gs |-> gs, panic |-> FALSE]

\* PlayerState::apply: the new player state, the mutated game state and
\* whether the call panicked
apply(ps, gs, action) ==
    CASE action.kind = "Brew"  -> ApplyBrew(ps, gs, action.id)
      [] action.kind = "Cast"  -> ApplyCast(ps, gs, action.id)
      [] action.kind = "Learn" -> ApplyLearn(ps, gs, action.id)
      [] action.kind = "Rest"  -> ApplyRest(ps, gs)
      [] OTHER                 -> [ps |-> ps, gs |-> gs, panic |-> FALSE]

----------------------------------------------------------------------------
(* GameState *)

GameState(me, my_spells, orders, tome) ==
    [me |-> me, my_spells |-> my_spells, orders |-> orders, tome |-> tome]

\* variant: the last fulfillable order instead of the first
find_brewable_order_last(gs) ==
    IF \E i \in 1..Len(gs.orders) :
          can_be_fulfilled_by(gs.orders[i], gs.me.inventory)
    THEN CHOOSE i \in 1..Len(gs.orders) :
            /\ can_be_fulfilled_by(gs.orders[i], gs.me.inventory)
            /\ \A j \in (i + 1)..Len(gs.orders) :
                  ~can_be_fulfilled_by(gs.orders[j], gs.me.inventory)
    ELSE 0

\* 0 stands for None
find_brewable_order(gs) ==
    Position([i \in 1..Len(gs.orders) |->
                 can_be_fulfilled_by(gs.orders[i], gs.me.inventory)])

----------------------------------------------------------------------------
(* Inputs: what read_from_io can build *)

Inventories == {Vec4(0, 0, 0, 0), Vec4(1, 0, 0, 0)}

Rosters ==
    { <<Spell(1, Vec4(1, 0, 0, 0))>>,
      <<Spell(1, Vec4(-1, 0, 0, 0))>>,
      <<Spell(1, Vec4(1, 0, 0, 0)), Spell(2, Vec4(-1, 1, 0, 0))>> }

OrderLists ==
    { <<>>,
      <<Order(50, 10, Vec4(-2, 0, 0, 0))>>,
      <<Order(50, 10, Vec4(-2, 0, 0, 0)), Order(51, 1, Vec4(-1, 0, 0, 0)),
        Order(52, 2, Vec4(-1, 0, 0, 0))>> }

Tomes ==
    { <<>>,
      <<TomeSpell(20, Vec4(1, 0, 0, 0), 0)>>,
      <<TomeSpell(20, Vec4(1, 0, 0, 0), 0),
        TomeSpell(21, Vec4(0, 0, 1, 1), 1)>>,
      <<TomeSpell(20, Vec4(1, 0, 0, 0), 0),
        TomeSpell(21, Vec4(0, 0, 1, 1), 1),
        TomeSpell(22, Vec4(0, 1, 0, 0), 2)>> }

Turns == {4, 5}

Scores == {0, 3}

\* read_player: inventory and score from input, brew count 0, every roster
\* id available
read_player(inventory, score, spells) ==
    PlayerState(score, 0, inventory, Ids(spells))

----------------------------------------------------------------------------
(* Bot::think and Bot::bfs *)

Init ==
    /\ \E inv \in Inventories, score \in Scores, my_spells \in Rosters,
          orders \in OrderLists, tome \in Tomes :
          state = GameState(read_player(inv, score, my_spells), my_spells,
                            orders, tome)
    /\ turn \in Turns
    /\ game_state = state
    /\ pc = "think"
    /\ queue = <<>>
    /\ visited = {}
    /\ predecessor = <<>>
    /\ pred_action = <<>>
    /\ initial_state = <<>>
    /\ best_state = <<>>
    /\ best_score = F64_MIN
    /\ iterations = 0
    /\ current_state = <<>>
    /\ actions = <<>>
    /\ cur_action = <<>>
    /\ next = <<>>
    /\ expanded = <<>>
    /\ discovered = <<>>
    /\ depth = <<>>
    /\ path = <<>>
    /\ result = <<>>

\* think: the fast path
ThinkBrew ==
    /\ pc = "think"
    /\ find_brewable_order(game_state) # 0
    /\ result' = <<Brew(game_state.orders[find_brewable_order(game_state)].id)>>
    /\ pc' = "done_brew"
    /\ UNCHANGED <<state, turn, game_state>>
    /\ UNCHANGED bfsvars

\* think calls bfs: the statements of bfs before its loop
BfsStart ==
    /\ pc = "think"
    /\ find_brewable_order(game_state) = 0
    /\ initial_state' = <<game_state.me>>
    /\ queue' = <<game_state.me>>
    /\ pred_action' = (game_state.me :> Wait)
    /\ visited' = {game_state.me}
    /\ iterations' = 0
    /\ best_state' = <<>>
    /\ best_score' = F64_MIN
    /\ discovered' = <<game_state.me>>
    /\ depth' = (game_state.me :> 0)
    /\ pc' = "loop"
    /\ UNCHANGED <<state, turn, game_state, predecessor, current_state,
                   actions, cur_action, next, expanded, path, result>>

\* variant: the walk stops one link early and loses the first action
RECURSIVE WalkBackShort(_, _, _, _)
WalkBackShort(curr_state, seed, pa, pred) ==
    IF curr_state = seed
    THEN [ok |-> TRUE, path |-> <<>>]
    ELSE IF curr_state \notin DOMAIN pa \/ curr_state \notin DOMAIN pred
         THEN [ok |-> FALSE, path |-> <<>>]
         ELSE IF pred[curr_state] = seed
              THEN [ok |-> TRUE, path |-> <<>>]
              ELSE LET rest == WalkBackShort(pred[curr_state], seed, pa, pred)
                   IN  [ok |-> rest.ok,
                        path |-> <<pa[curr_state]>> \o rest.path]

\* the walk from best_state back to the seed; ok is FALSE when one of the
\* two expect calls fails
RECURSIVE WalkBack(_, _, _, _)
WalkBack(curr_state, seed, pa, pred) ==
    IF curr_state = seed
    THEN [ok |-> TRUE, path |-> <<>>]
    ELSE IF curr_state \notin DOMAIN pa \/ curr_state \notin DOMAIN pred
         THEN [ok |-> FALSE, path |-> <<>>]
         ELSE LET rest == WalkBack(pred[curr_state], seed, pa, pred)
              IN  [ok |-> rest.ok,
                   path |-> <<pa[curr_state]>> \o rest.path]

\* `while let Some(..) = queue.pop_front()` fails: bfs returns Vec::new()
BfsExhausted ==
    /\ pc = "loop"
    /\ queue = <<>>
    /\ path' = <<>>
    /\ pc' = "ret_empty"
    /\ UNCHANGED <<state, turn, game_state, queue, visited, predecessor,
                   pred_action, initial_state, best_state, best_score,
                   iterations, current_state, actions, cur_action, next,
                   expanded, discovered, depth, result>>

\* a node is popped and the deadline is observed as exceeded
Cutoff ==
    /\ pc = "loop"
    /\ queue # <<>>
    /\ current_state' = <<Head(queue)>>
    /\ queue' = Tail(queue)
    /\ IF best_state = <<>>
       THEN pc' = "panic" /\ path' = path
       ELSE LET w == WalkBack(best_state[1], initial_state[1],
                              pred_action, predecessor)
            IN  IF w.ok
                THEN pc' = "ret_cutoff" /\ path' = w.path
                ELSE pc' = "panic" /\ path' = path
    /\ UNCHANGED <<state, turn, game_state, visited, predecessor,
                   pred_action, initial_state, best_state, best_score,
                   iterations, actions, cur_action, next, expanded,
                   discovered, depth, result>>

\* variant: a tie replaces the running best
IsBetterOrEqual(score, best) == score >= best

\* `if score > best_score`
IsBetter(score, best) == score > best

\* a node is popped within the deadline: it is evaluated and its actions
\* are enumerated
Dequeue ==
    /\ pc = "loop"
    /\ queue # <<>>
    /\ Len(expanded) < MaxDequeue
    /\ LET curr == Head(queue)
           score == evaluate(curr)
       IN  /\ current_state' = <<curr>>
           /\ queue' = Tail(queue)
           /\ expanded' = Append(expanded, curr)
           /\ IF IsBetter(score, best_score)
              THEN best_score' = score /\ best_state' = <<curr>>
              ELSE UNCHANGED <<best_score, best_state>>
           /\ IF HitsUnreachable(curr, game_state)
              THEN pc' = "panic" /\ actions' = <<>>
              ELSE /\ actions' = get_possible_actions(curr, game_state, turn)
                   /\ pc' = "expand"
    /\ UNCHANGED <<state, turn, game_state, visited, predecessor,
                   pred_action, initial_state, iterations, cur_action, next,
                   discovered, depth, path, result>>

\* variant: the visited test is missing
IsNewAlways(n, seen) == TRUE

\* `if !visited.contains(&next)`
IsNew(n, seen) == n \notin seen

\* HashMap::entry(k).or_insert(v)
OrInsert(map, k, v) == IF k \in DOMAIN map THEN map ELSE map @@ (k :> v)

\* variant: the new node goes to the front of the frontier
PushFront(q, n) == <<n>> \o q

\* VecDeque::push_back
PushBack(q, n) == Append(q, n)

\* variant: key and value of the predecessor entry are swapped
RecordPredecessorSwapped(map, n, curr) == OrInsert(map, curr, n)

\* `predecessor.entry(next.clone()).or_insert(curr_state.clone())`
RecordPredecessor(map, n, curr) == OrInsert(map, n, curr)

\* one round of `for action in ...`: clone, apply, count, enqueue if new
ApplyNext ==
    /\ pc = "expand"
    /\ actions # <<>>
    /\ cur_action' = <<Head(actions)>>
    /\ LET r == apply(current_state[1], game_state, Head(actions))
       IN  IF r.panic
           THEN /\ pc' = "panic"
                /\ UNCHANGED <<game_state, queue, visited, predecessor,
                               pred_action, iterations, actions, next,
                               discovered, depth>>
           ELSE /\ game_state' = r.gs
                /\ next' = <<r.ps>>
                /\ iterations' = iterations + 1
                /\ actions' = Tail(actions)
                /\ pc' = "expand"
                /\ IF IsNew(r.ps, visited)
                   THEN /\ queue' = PushBack(queue, r.ps)
                        /\ pred_action' =
                               OrInsert(pred_action, r.ps, Head(actions))
                        /\ predecessor' =
                               RecordPredecessor(predecessor, r.ps,
                                                 current_state[1])
                        /\ visited' = visited \cup {r.ps}
                        /\ discovered' = Append(discovered, r.ps)
                        /\ depth' = OrInsert(depth, r.ps,
                                             depth[current_state[1]] + 1)
                   ELSE UNCHANGED <<queue, pred_action, predecessor,
                                    visited, discovered, depth>>
    /\ UNCHANGED <<state, turn, initial_state, best_state, best_score,
                   current_state, expanded, path, result>>

\* the for loop is over: back to the head of the while loop
EndExpand ==
    /\ pc = "expand"
    /\ actions = <<>>
    /\ pc' = "loop"
    /\ UNCHANGED <<state, turn, game_state, result>>
    /\ UNCHANGED bfsvars

\* think after bfs: reverse the path, return its first action or Wait
ThinkReturn ==
    /\ pc \in {"ret_cutoff", "ret_empty"}
    /\ LET acts == Reverse(path)
       IN  result' = IF acts # <<>> THEN <<acts[1]>> ELSE <<Wait>>
    /\ pc' = "done"
    /\ UNCHANGED <<state, turn, game_state>>
    /\ UNCHANGED bfsvars

Next ==
    \/ ThinkBrew
    \/ BfsStart
    \/ BfsExhausted
    \/ Cutoff
    \/ Dequeue
    \/ ApplyNext
    \/ EndExpand
    \/ ThinkReturn

Spec == Init /\ [][Next]_vars

----------------------------------------------------------------------------
(* PlayerState::apply on its own: one call on a well-formed pair of player *)
(* state and game state, with any action                                   *)

\* rosters as planning can leave them: with spells appended by Learn
ApplyRosters ==
    Rosters \cup
    { <<Spell(1, Vec4(1, 0, 0, 0)), Spell(1020, Vec4(1, 0, 0, 0))>> }

\* the elements of s at the positions in idx, in the order of s
Pick(s, idx) ==
    LET keep == SelectSeq([i \in 1..Len(s) |-> i], LAMBDA i : i \in idx)
    IN  [k \in 1..Len(keep) |-> s[keep[k]]]

\* the available-spell lists a node can hold: roster ids still to cast
AvailableLists(my_spells) ==
    {Pick(Ids(my_spells), idx) : idx \in SUBSET (1..Len(my_spells))}

\* the actions handed to apply; 99 is the id of nothing
ApplyActions ==
    {Brew(50), Brew(51), Brew(99), Cast(1), Cast(2), Cast(1020), Cast(99),
     Learn(20), Learn(21), Learn(99), Rest, Wait}

InitApply ==
    /\ \E inv \in Inventories, my_spells \in ApplyRosters,
          orders \in OrderLists, tome \in Tomes :
          /\ state = GameState(read_player(inv, 0, my_spells), my_spells,
                               orders, tome)
          /\ \E avail \in AvailableLists(my_spells) :
                current_state = <<PlayerState(0, 0, inv, avail)>>
    /\ cur_action \in {<<a>> : a \in ApplyActions}
    /\ turn = 0
    /\ game_state = state
    /\ pc = "apply"
    /\ queue = <<>>
    /\ visited = {}
    /\ predecessor = <<>>
    /\ pred_action = <<>>
    /\ initial_state = <<>>
    /\ best_state = <<>>
    /\ best_score = F64_MIN
    /\ iterations = 0
    /\ actions = <<>>
    /\ next = <<>>
    /\ expanded = <<>>
    /\ discovered = <<>>
    /\ depth = <<>>
    /\ path = <<>>
    /\ result = <<>>

\* `next.apply(game_state, action)` returns
ApplyReturns ==
    /\ pc = "apply"
    /\ LET r == apply(current_state[1], game_state, cur_action[1])
       IN  /\ ~r.panic
           /\ next' = <<r.ps>>
           /\ game_state' = r.gs
    /\ pc' = "apply_ret"
    /\ UNCHANGED <<state, turn, queue, visited, predecessor, pred_action,
                   initial_state, best_state, best_score, iterations,
                   current_state, actions, cur_action, expanded, discovered,
                   depth, path, result>>

\* `next.apply(game_state, action)` panics
ApplyPanics ==
    /\ pc = "apply"
    /\ apply(current_state[1], game_state, cur_action[1]).panic
    /\ pc' = "apply_panic"
    /\ UNCHANGED <<state, turn, game_state, queue, visited, predecessor,
                   pred_action, initial_state, best_state, best_score,
                   iterations, current_state, actions, cur_action, next,
                   expanded, discovered, depth, path, result>>

NextApply == ApplyReturns \/ ApplyPanics

SpecApply == InitApply /\ [][NextApply]_vars

----------------------------------------------------------------------------
(* Playing a plan for real: every step owns its game state *)

\* evaluate as the specification states it: score + inventory.(1,2,3,4)
Weighted(ps) ==
    ps.score + 1 * ps.inventory[1] + 2 * ps.inventory[2]
             + 3 * ps.inventory[3] + 4 * ps.inventory[4]

\* replay of a plan (seed to terminal) from player state ps and game state
\* gs: legal is FALSE as soon as a step is not among the legal actions
RECURSIVE Replay(_, _, _)
Replay(acts, ps, gs) ==
    IF acts = <<>>
    THEN [legal |-> TRUE, ps |-> ps]
    ELSE IF Head(acts) \notin Range(get_possible_actions(ps, gs, turn))
         THEN [legal |-> FALSE, ps |-> ps]
         ELSE LET r == apply(ps, gs, Head(acts))
              IN  Replay(Tail(acts), r.ps, r.gs)

\* the successors of a (player state, game state) pair by one legal action
Succs(f) ==
    {[ps |-> apply(f.ps, f.gs, a).ps, gs |-> apply(f.ps, f.gs, a).gs] :
        a \in Range(get_possible_actions(f.ps, f.gs, turn))}

\* the pairs reachable from the seed by at most n legal actions
RECURSIVE ReachWithin(_)
ReachWithin(n) ==
    IF n <= 0
    THEN {[ps |-> state.me, gs |-> state]}
    ELSE LET prev == ReachWithin(n - 1)
         IN  prev \cup UNION {Succs(f) : f \in prev}

\* the state n predecessor links above s
RECURSIVE Ancestor(_, _)
Ancestor(s, n) == IF n = 0 THEN s ELSE Ancestor(predecessor[s], n - 1)

\* path (terminal to seed, as bfs returns it) is the chain of recorded
\* actions that leads from the seed to s
PathEndsIn(p, s) ==
    /\ \A i \in 1..Len(p) :
          /\ Ancestor(s, i - 1) \in DOMAIN predecessor
          /\ p[i] = pred_action[Ancestor(s, i - 1)]
    /\ Ancestor(s, Len(p)) = initial_state[1]

NoDuplicates(s) == \A i, j \in 1..Len(s) : i # j => s[i] # s[j]

----------------------------------------------------------------------------
(* Claims *)

\* C1: whenever the deadline is first observed as exceeded, the very first
\* dequeue included, bfs returns a path and never aborts.
C1_NeverAborts == pc # "panic"

\* C2: every non-empty path returned at cutoff, replayed seed to terminal
\* from the seed player state and the game state as it was before planning,
\* is legal at every step and ends in exactly the state selected as best.
C2_PathExecutable ==
    (pc = "ret_cutoff" /\ path # <<>>) =>
        LET r == Replay(Reverse(path), state.me, state)
        IN  r.legal /\ r.ps = best_state[1]

\* C3 as stated: at cutoff the returned path ends in the state with the
\* highest evaluation among all states discovered (inserted into visited).
C3_BestAmongDiscovered ==
    pc = "ret_cutoff" =>
        /\ PathEndsIn(path, best_state[1])
        /\ \A s \in visited : Weighted(best_state[1]) >= Weighted(s)

\* C3 amended: at cutoff the returned path ends in the state with the
\* highest evaluation among the states popped and evaluated before the
\* cutoff; states that were enqueued but not yet popped do not count.
C3_BestAmongEvaluated ==
    pc = "ret_cutoff" =>
        /\ PathEndsIn(path, best_state[1])
        /\ best_state[1] \in Range(expanded)
        /\ \A i \in 1..Len(expanded) :
              Weighted(best_state[1]) >= Weighted(expanded[i])

\* C3 witness: a cutoff after the best moved away from the seed, with a
\* discovered state that was never evaluated
C3_Witness ==
    /\ pc = "ret_cutoff"
    /\ Len(expanded) >= 3
    /\ best_state[1] # initial_state[1]
    /\ \E i \in 1..Len(expanded) :
          Weighted(expanded[i]) < Weighted(best_state[1])
    /\ visited # Range(expanded)

\* C4: the returned path is a shortest path from the seed to its terminal
\* state: no legal action sequence with fewer actions reaches that state.
C4_ShortestPath ==
    (pc = "ret_cutoff" /\ path # <<>>) =>
        ~ \E f \in ReachWithin(Len(path) - 1) : f.ps = best_state[1]

\* C5: when the search is exhausted or the path is empty, think returns a
\* legal action of the seed state, and Wait only if there is none.
C5_FallbackLegal ==
    (pc = "done" /\ path = <<>>) =>
        LET legal == Range(get_possible_actions(state.me, state, turn))
                       \cup Range(get_possible_actions(state.me,
                                                       game_state, turn))
        IN  IF legal = {} THEN result[1] = Wait ELSE result[1] \in legal

\* C6: if some open order is fulfillable by the seed inventory, think
\* returns Brew of the first such order in list position, bfs is never
\* started and the game state is left as it was.
C6_FastPath ==
    LET inv == state.me.inventory
        fits(o) == /\ inv[1] + o.delta[1] >= 0 /\ inv[2] + o.delta[2] >= 0
                   /\ inv[3] + o.delta[3] >= 0 /\ inv[4] + o.delta[4] >= 0
    IN  (\E i \in 1..Len(state.orders) : fits(state.orders[i])) =>
            /\ pc \in {"think", "done_brew"}
            /\ game_state = state
            /\ queue = <<>> /\ visited = {} /\ expanded = <<>>
            /\ iterations = 0 /\ initial_state = <<>> /\ path = <<>>
            /\ pc = "done_brew" =>
                  \E i \in 1..Len(state.orders) :
                      /\ fits(state.orders[i])
                      /\ \A j \in 1..(i - 1) : ~fits(state.orders[j])
                      /\ result = <<Brew(state.orders[i].id)>>

\* C6 witness: the fast path has returned, the first order of the list is
\* not fulfillable and two later ones are
C6_Witness ==
    /\ pc = "done_brew"
    /\ Len(state.orders) = 3
    /\ ~can_be_fulfilled_by(state.orders[1], state.me.inventory)
    /\ can_be_fulfilled_by(state.orders[2], state.me.inventory)
    /\ can_be_fulfilled_by(state.orders[3], state.me.inventory)

\* the scenario of C7
C7_Scenario ==
    /\ state.me.inventory = Vec4(0, 0, 0, 0)
    /\ state.me.score = 0
    /\ state.orders = <<Order(50, 10, Vec4(-2, 0, 0, 0))>>
    /\ state.my_spells = <<Spell(1, Vec4(1, 0, 0, 0))>>
    /\ state.tome = <<>>

C7_Plan == <<Cast(1), Rest, Cast(1), Brew(50)>>

C8_NoReexpansion ==
    /\ NoDuplicates(expanded \o queue)
    /\ Range(expanded \o queue) \subseteq visited

\* C8 witness: apply has just produced a value that had been expanded
\* from another node, while the shared game state differs from the
\* original one
C8_Witness ==
    /\ pc = "expand"
    /\ next # <<>>
    /\ next[1] # current_state[1]
    /\ next[1] \in Range(expanded)
    /\ game_state # state
    /\ iterations > Cardinality(visited) - 1

\* C9: with a non-negative seed inventory every PlayerState produced during
\* planning has a non-negative inventory in all four components.
C9_NonNegInventory ==
    LET nonneg(ps) == \A k \in 1..4 : ps.inventory[k] >= 0
    IN  (\A k \in 1..4 : state.me.inventory[k] >= 0) =>
            /\ \A s \in visited : nonneg(s)
            /\ \A i \in 1..Len(queue) : nonneg(queue[i])
            /\ next # <<>> => nonneg(next[1])

\* C9 witness: a spell with a negative component has been cast and an
\* order has been brewed
C9_Witness ==
    /\ \E s \in visited : s.inventory[2] >= 1
    /\ \E s \in visited : s.brew_count >= 1

\* the orders of seq that fit the inventory, by id
C10_Fitting(inv, orders) ==
    {orders[i].id : i \in {k \in 1..Len(orders) :
        /\ inv[1] + orders[k].delta[1] >= 0
        /\ inv[2] + orders[k].delta[2] >= 0
        /\ inv[3] + orders[k].delta[3] >= 0
        /\ inv[4] + orders[k].delta[4] >= 0}}

C10_Step ==
    \* offered exactly for the open orders the inventory fulfils
    /\ (pc = "loop" /\ pc' = "expand") =>
          {a.id : a \in {b \in Range(actions') : b.kind = "Brew"}}
              = C10_Fitting(current_state'[1].inventory, game_state.orders)
    \* the effect of applying it
    /\ (pc = "expand" /\ actions # <<>> /\ Head(actions).kind = "Brew") =>
          /\ pc' = "expand"
          /\ \E i \in 1..Len(game_state.orders) :
                LET o == game_state.orders[i]
                    ps == current_state[1]
                IN  /\ o.id = Head(actions).id
                    /\ next'[1].inventory =
                           <<ps.inventory[1] + o.delta[1],
                             ps.inventory[2] + o.delta[2],
                             ps.inventory[3] + o.delta[3],
                             ps.inventory[4] + o.delta[4]>>
                    /\ next'[1].score = ps.score + o.price
                    /\ next'[1].brew_count = ps.brew_count + 1
                    /\ next'[1].available_spells = ps.available_spells
                    /\ game_state'.orders =
                           SubSeq(game_state.orders, 1, i - 1)
                             \o SubSeq(game_state.orders, i + 1,
                                       Len(game_state.orders))
                    /\ game_state'.my_spells = game_state.my_spells
                    /\ game_state'.tome = game_state.tome
    \* an order leaves the list only by being brewed and never comes back
    /\ game_state'.orders # game_state.orders =>
          /\ pc = "expand" /\ actions # <<>> /\ Head(actions).kind = "Brew"
          /\ Len(game_state'.orders) = Len(game_state.orders) - 1
    /\ Range(game_state'.orders) \subseteq Range(game_state.orders)

\* C10: Brew is offered exactly for the open orders that the inventory
\* fulfils; applying it adds delta, price and one brew, removes exactly
\* that order and leaves roster, tome and available spells alone; an order
\* is removed at most once and never offered or brewed after its removal.
C10_Brew == [][C10_Step]_vars

\* C10 witness: two orders have been brewed in one planning call, each
\* removed once, neither was the first of the list, and that one is still
\* open
C10_Witness ==
    /\ next # <<>>
    /\ next[1].brew_count = 1
    /\ next[1].score = state.me.score + 2
    /\ Len(state.orders) = 3
    /\ Len(game_state.orders) = 1
    /\ game_state.orders[1].id = 50

\* C11: applying Cast(id) to a PlayerState whose available list does not
\* hold id always aborts, whether or not id is in the roster; it never
\* returns.
C11_CastFailsLoudly ==
    (/\ pc # "apply"
     /\ cur_action[1].kind = "Cast"
     /\ cur_action[1].id \notin Range(current_state[1].available_spells))
        => pc = "apply_panic"

\* C12: in every state reachable during planning, get_possible_actions
\* offers Rest for a node exactly when the set of its available spells is a
\* strict subset of the ids of the current shared roster.
C12_RestOffer ==
    LET ids == {game_state.my_spells[i].id :
                    i \in 1..Len(game_state.my_spells)}
    IN  \A s \in visited :
            (Rest \in Range(get_possible_actions(s, game_state, turn)))
              <=> /\ Range(s.available_spells) \subseteq ids
                  /\ Range(s.available_spells) # ids

\* C12 witness: Rest is offered to a node that holds every spell of the
\* input roster, because a Learn made the shared roster larger, while
\* another node holds the whole current roster
C12_Witness ==
    /\ pc = "expand"
    /\ Rest \in Range(actions)
    /\ current_state[1].available_spells = Ids(state.my_spells)
    /\ Len(game_state.my_spells) > Len(state.my_spells)
    /\ \E s \in visited : s.available_spells = Ids(game_state.my_spells)

\* C13: the available list changes only through Cast and Rest: Cast(id)
\* removes exactly id and adds the delta of spell id to the inventory, Rest
\* sets it to the ids of the whole current roster and changes nothing else,
\* and Brew, Learn and Wait leave it unchanged.
C13_AvailableFrame ==
    pc = "apply_ret" =>
        LET a == cur_action[1]
            ps == current_state[1]
            n == next[1]
            roster == state.my_spells
        IN  CASE a.kind = "Cast" /\ a.id \in Range(ps.available_spells) ->
                   /\ \E i \in 1..Len(ps.available_spells) :
                         /\ ps.available_spells[i] = a.id
                         /\ n.available_spells =
                              SubSeq(ps.available_spells, 1, i - 1)
                                \o SubSeq(ps.available_spells, i + 1,
                                          Len(ps.available_spells))
                   /\ Range(n.available_spells) =
                         Range(ps.available_spells) \ {a.id}
                   /\ \E k \in 1..Len(roster) :
                         /\ roster[k].id = a.id
                         /\ \A c \in 1..4 :
                               n.inventory[c] =
                                   ps.inventory[c] + roster[k].delta[c]
                   /\ n.score = ps.score /\ n.brew_count = ps.brew_count
                   /\ game_state = state
              [] a.kind = "Rest" ->
                   /\ Len(n.available_spells) = Len(roster)
                   /\ \A i \in 1..Len(roster) :
                         n.available_spells[i] = roster[i].id
                   /\ n.inventory = ps.inventory
                   /\ n.score = ps.score /\ n.brew_count = ps.brew_count
                   /\ game_state = state
              [] OTHER -> n.available_spells = ps.available_spells

\* C13 witness: Rest has returned on a roster that holds a learned spell
\* and gave back both spells to a node that had none left
C13_Witness ==
    /\ pc = "apply_ret"
    /\ cur_action[1] = Rest
    /\ current_state[1].available_spells = <<>>
    /\ next[1].available_spells = <<1, 1020>>

C14_Step ==
    /\ (pc = "loop" /\ pc' = "expand") =>
          {a.id : a \in {b \in Range(actions') : b.kind = "Learn"}}
            = {game_state.tome[i].id :
                 i \in {k \in 1..Len(game_state.tome) :
                          /\ turn < 5
                          /\ current_state'[1].inventory[1]
                               >= game_state.tome[k].tome_index}}
    /\ (pc = "expand" /\ actions # <<>> /\ Head(actions).kind = "Learn") =>
          /\ game_state'.tome # game_state.tome
          /\ Len(game_state'.my_spells) = Len(game_state.my_spells) + 1

\* C14: Learn(id) is offered for a tome entry exactly when turn < 5 and the
\* tier-0 inventory is at least the entry's tome position, the cost that
\* apply checks; so every Learn that is offered takes effect when applied.
C14_LearnOffer == [][C14_Step]_vars

C15_Step ==
    \* the effect of applying Learn(id)
    /\ (pc = "expand" /\ actions # <<>> /\ Head(actions).kind = "Learn") =>
          /\ pc' = "expand"
          /\ game_state'.orders = game_state.orders
          /\ \E i \in 1..Len(game_state.tome) :
                LET e == game_state.tome[i]
                    inv == current_state[1].inventory
                IN  /\ e.id = Head(actions).id
                    /\ IF inv[1] - e.tome_index >= 0 /\ inv[2] >= 0
                          /\ inv[3] >= 0 /\ inv[4] >= 0
                       THEN /\ game_state'.my_spells =
                                  game_state.my_spells \o
                                    <<[id |-> e.id + 1000, delta |-> e.delta,
                                       is_repeatable |->
                                          \E c \in 1..4 : e.delta[c] < 0]>>
                            /\ game_state'.tome =
                                  SubSeq(game_state.tome, 1, i - 1)
                                    \o SubSeq(game_state.tome, i + 1,
                                              Len(game_state.tome))
                       ELSE game_state' = game_state
    \* an entry leaves the tome only by being learned and never comes back
    /\ game_state'.tome # game_state.tome =>
          /\ pc = "expand" /\ actions # <<>> /\ Head(actions).kind = "Learn"
          /\ Len(game_state'.tome) = Len(game_state.tome) - 1
    /\ Range(game_state'.tome) \subseteq Range(game_state.tome)
    /\ Len(game_state'.tome) + Len(game_state'.my_spells)
          = Len(game_state.tome) + Len(game_state.my_spells)

\* C15: Learn(id) of a tome entry with position p: if inventory - (p,0,0,0)
\* is non-negative, one spell with id + 1000 and the entry's delta is
\* appended to the shared roster and that entry is removed from the tome;
\* otherwise nothing changes.  An entry is removed at most once and never
\* re-added, so tome size + roster size is constant.
C15_Learn == [][C15_Step]_vars

\* C15 witness: Learn(22) has just been applied without effect (entry 22
\* is still in the tome) after entries 20 and 21 were learned
C15_Witness ==
    /\ pc = "expand"
    /\ cur_action = <<Learn(22)>>
    /\ Ids(game_state.tome) = <<22>>
    /\ Ids(game_state.my_spells) = Ids(state.my_spells) \o <<1020, 1021>>

C16_Step ==
    /\ pc' = "ret_cutoff" => Len(path') = depth'[best_state'[1]]
    /\ \A s \in DOMAIN predecessor :
          s \in DOMAIN predecessor' /\ predecessor'[s] = predecessor[s]
    /\ \A s \in DOMAIN pred_action :
          s \in DOMAIN pred_action' /\ pred_action'[s] = pred_action[s]

\* C16: the length of the returned path equals the depth at which its
\* terminal state was first discovered, and the predecessor and action
\* recorded at first discovery are never overwritten.
C16_PathLengthIsDepth == [][C16_Step]_vars

\* C16 witness: a path of three or more actions has been returned after
\* values were reached again and rejected
C16_Witness ==
    /\ pc = "ret_cutoff"
    /\ Len(path) >= 3
    /\ depth[best_state[1]] >= 3
    /\ iterations > Cardinality(visited) - 1

\* the node popped by the loop iteration that observed the deadline
C18_Popped ==
    IF current_state # <<>> /\ current_state[1] \notin Range(expanded)
    THEN current_state
    ELSE <<>>

\* C18: the search is pure breadth-first: nodes are popped in the order of
\* their first discovery, with non-decreasing discovery depth, every
\* discovered node stays in the frontier until it is popped, and the
\* evaluation only updates the running best, which is replaced on a
\* strictly greater score only (the earliest popped maximum wins ties).
C18_PureBreadthFirst ==
    initial_state # <<>> =>
        /\ discovered = expanded \o C18_Popped \o queue
        /\ \A i, j \in 1..Len(discovered) :
              i < j => depth[discovered[i]] <= depth[discovered[j]]
        /\ IF expanded = <<>>
           THEN best_state = <<>>
           ELSE \E i \in 1..Len(expanded) :
                   /\ best_state = <<expanded[i]>>
                   /\ best_score = Weighted(expanded[i])
                   /\ \A j \in 1..Len(expanded) :
                         Weighted(expanded[j]) <= Weighted(expanded[i])
                   /\ \A j \in 1..(i - 1) :
                         Weighted(expanded[j]) < Weighted(expanded[i])

\* C18 witness: at cutoff a later node ties with the running best, nodes
\* of three depths were popped and the frontier is not empty
C18_Witness ==
    /\ pc = "ret_cutoff"
    /\ queue # <<>>
    /\ depth[expanded[Len(expanded)]] >= 2
    /\ \E i, j \in 1..Len(expanded) :
          /\ i < j
          /\ best_state = <<expanded[i]>>
          /\ Weighted(expanded[j]) = Weighted(expanded[i])

C19_Step ==
    /\ (pc = "expand" /\ actions # <<>> /\ Head(actions).kind = "Learn") =>
          /\ next' = current_state
          /\ next'[1] \in visited
          /\ queue' = queue /\ visited' = visited
          /\ predecessor' = predecessor /\ pred_action' = pred_action
    /\ \A i \in 1..Len(path') : path'[i].kind # "Learn"
    /\ \A s \in DOMAIN pred_action' : pred_action'[s].kind # "Learn"
    /\ Len(game_state'.my_spells) >= Len(game_state.my_spells)
    /\ SubSeq(game_state'.my_spells, 1, Len(game_state.my_spells))
          = game_state.my_spells
    /\ Range(game_state'.tome) \subseteq Range(game_state.tome)

\* C19: applying Learn never changes the PlayerState, so its result is an
\* already visited node and no Learn appears in a returned path, while the
\* removal from the tome and the addition to the roster persist.
C19_LearnInvisible == [][C19_Step]_vars

\* C19 witness: a returned path casts a learned spell
C19_Witness ==
    /\ pc = "ret_cutoff"
    /\ \E i \in 1..Len(path) : path[i].kind = "Cast" /\ path[i].id >= 1000
    /\ Len(game_state.tome) < Len(state.tome)

\* C20: every enqueued state but the seed has a predecessor and an action
\* entry, its predecessor was popped earlier, and the links from the best
\* state reach the seed in finitely many steps without a repeated state;
\* the reconstruction never misses an entry.
C20_PredecessorChain ==
    initial_state # <<>> =>
        /\ \A s \in visited \ {initial_state[1]} :
              /\ s \in DOMAIN predecessor
              /\ s \in DOMAIN pred_action
              /\ predecessor[s] \in Range(expanded)
              /\ predecessor[s] # s
              /\ \A i \in 1..Len(expanded) :
                    expanded[i] = s =>
                        \E j \in 1..(i - 1) : expanded[j] = predecessor[s]
              /\ depth[predecessor[s]] = depth[s] - 1
        /\ best_state # <<>> =>
              /\ Ancestor(best_state[1], depth[best_state[1]])
                    = initial_state[1]
              /\ \A i, j \in 0..depth[best_state[1]] :
                    i < j => Ancestor(best_state[1], i)
                               # Ancestor(best_state[1], j)
        /\ pc = "panic" => best_state = <<>>

\* C20 witness: a path of four or more actions was reconstructed out of a
\* visited set of six or more states
C20_Witness ==
    /\ pc = "ret_cutoff"
    /\ Len(path) >= 4
    /\ Cardinality(visited) >= 6

\* every player state the search holds: frontier, visited set, keys and
\* values of the predecessor map, the node being expanded, the last result
\* of apply, the best node and the seed
C21_Nodes ==
    visited \cup Range(queue) \cup Range(expanded) \cup Range(discovered)
        \cup Range(current_state) \cup Range(next) \cup Range(best_state)
        \cup Range(initial_state) \cup DOMAIN predecessor
        \cup {predecessor[s] : s \in DOMAIN predecessor}

\* a is b with some of its elements left out, the order kept
RECURSIVE IsSubsequence(_, _)
IsSubsequence(a, b) ==
    IF a = <<>>
    THEN TRUE
    ELSE IF b = <<>>
         THEN FALSE
         ELSE IF Head(a) = Head(b)
              THEN IsSubsequence(Tail(a), Tail(b))
              ELSE IsSubsequence(a, Tail(b))

\* C21: in every state reachable during planning the available list of
\* every node is a duplicate-free subsequence, in roster order, of the ids
\* of the current shared roster; so every available id is found in the
\* roster (unreachable! is never hit), the length inequality that offers
\* Rest coincides with strict subset, and two nodes with the same set of
\* available ids, score, inventory and brew count are the same value.
C21_AvailableSubsequence ==
    LET roster == Ids(game_state.my_spells)
    IN  /\ NoDuplicates(roster)
        /\ \A s \in C21_Nodes :
              /\ NoDuplicates(s.available_spells)
              /\ IsSubsequence(s.available_spells, roster)
              /\ ~HitsUnreachable(s, game_state)
              /\ have_exhausted_spells(s, game_state)
                    <=> /\ Range(s.available_spells) \subseteq Range(roster)
                        /\ Range(s.available_spells) # Range(roster)
        /\ \A a, b \in C21_Nodes :
              ( /\ Range(a.available_spells) = Range(b.available_spells)
                /\ a.score = b.score
                /\ a.inventory = b.inventory
                /\ a.brew_count = b.brew_count ) => a = b

\* C21 witness: after a Learn made the roster longer and a Rest took the
\* learned id into a list, a Cast left a node whose list holds a learned
\* id, skips an earlier roster id and is shorter than the roster
C21_Witness ==
    LET roster == Ids(game_state.my_spells)
    IN  /\ Len(roster) > Len(state.my_spells)
        /\ \E s \in visited :
              /\ Len(s.available_spells) >= 2
              /\ Len(s.available_spells) < Len(roster)
              /\ \E i \in 1..Len(s.available_spells) :
                    s.available_spells[i] >= LearnedIdOffset
              /\ s.available_spells
                    # SubSeq(roster, 1, Len(s.available_spells))

====
